---- MODULE Spec2Model ----
(***************************************************************************)
(* Model of the Meteoserver package: the sun-data reader/writer of         *)
(* meteoserver/sundata.py and the hourly-forecast reader of                *)
(* meteoserver/uurverwachting.py.                                          *)
(*                                                                         *)
(* A call runs statement by statement; an exception unwinds through the    *)
(* enclosing `with` block (which closes the file handle) and ends the      *)
(* call.  JSON values, strings and data frames are modelled structurally:  *)
(* a string is a sequence of characters, a dict is a sequence of key/value *)
(* items in insertion order, a data frame is a sequence of column names    *)
(* with one value sequence per column.                                     *)
(***************************************************************************)
EXTENDS Integers, Sequences, FiniteSets, TLC

(***************************************************************************)
(* Bounds of the checked inputs.                                           *)
(***************************************************************************)
\* largest number of records in the 'current', 'forecast' and 'data' lists
MaxRecs == 2

(***************************************************************************)
(* Values.  Every value has the same shape, so that any two can be         *)
(* compared: t is the Python type, s the characters of a str, n/e the      *)
(* mantissa and number of decimals of a number, ts the fields              *)
(* <<year, month, day, hour, minute>> of a pandas Timestamp.               *)
(***************************************************************************)
Str(s)    == [t |-> "str", s |-> s,    n |-> 0, e |-> 0, ts |-> <<>>]
Num(n, e) == [t |-> "num", s |-> <<>>, n |-> n, e |-> e, ts |-> <<>>]
NaN       == [t |-> "nan", s |-> <<>>, n |-> 0, e |-> 0, ts |-> <<>>]
Ts(f)     == [t |-> "ts",  s |-> <<>>, n |-> 0, e |-> 0, ts |-> f]
NaT       == [t |-> "nat", s |-> <<>>, n |-> 0, e |-> 0, ts |-> <<>>]
NoValue   == [t |-> "none", s |-> <<>>, n |-> 0, e |-> 0, ts |-> <<>>]

\* result of an operation that may raise: a value, a column or a frame
Ok(x)      == [ok |-> TRUE,  val |-> x,    exc |-> ""]
Raise(exc) == [ok |-> FALSE, val |-> <<>>, exc |-> exc]

(***************************************************************************)
(* Characters and digits.                                                  *)
(***************************************************************************)
Digits == <<"0", "1", "2", "3", "4", "5", "6", "7", "8", "9">>

IsDigit(c) == \E k \in 1..Len(Digits) : Digits[k] = c

DigitValue(c) == (CHOOSE k \in 1..Len(Digits) : Digits[k] = c) - 1

AllDigits(s) == \A k \in 1..Len(s) : IsDigit(s[k])

RECURSIVE DigitsValue(_)
DigitsValue(s) ==
    IF s = <<>> THEN 0
    ELSE 10 * DigitsValue(SubSeq(s, 1, Len(s) - 1)) + DigitValue(s[Len(s)])

\* position of the first c in s at or after position from; 0 when there is none
Find(s, c, from) ==
    IF \E k \in from..Len(s) : s[k] = c
    THEN CHOOSE k \in from..Len(s) : s[k] = c /\ \A j \in from..(k - 1) : s[j] # c
    ELSE 0

\* position of the first character of s at or after from that is not c
SkipChar(s, c, from) ==
    IF \E k \in from..Len(s) : s[k] # c
    THEN CHOOSE k \in from..Len(s) : s[k] # c /\ \A j \in from..(k - 1) : s[j] = c
    ELSE Len(s) + 1

(***************************************************************************)
(* pandas.to_numeric, as used on one column (default errors='raise').      *)
(* A str is parsed as [sign] digits [. digits]; the empty str and a        *)
(* missing value give NaN; any other str raises ValueError.                *)
(***************************************************************************)
Unsigned(s) == IF s # <<>> /\ s[1] \in {"-", "+"} THEN SubSeq(s, 2, Len(s)) ELSE s

IntPart(s) ==
    LET b == Unsigned(s)
        dot == Find(b, ".", 1)
    IN  IF dot = 0 THEN b ELSE SubSeq(b, 1, dot - 1)

RECURSIVE StripZeros(_)
StripZeros(s) ==
    IF s # <<>> /\ s[Len(s)] = "0" THEN StripZeros(SubSeq(s, 1, Len(s) - 1)) ELSE s

FracPart(s) ==
    LET b == Unsigned(s)
        dot == Find(b, ".", 1)
    IN  IF dot = 0 THEN <<>> ELSE StripZeros(SubSeq(b, dot + 1, Len(b)))

IsNumericStr(s) ==
    LET b == Unsigned(s)
        dot == Find(b, ".", 1)
        ip == IF dot = 0 THEN b ELSE SubSeq(b, 1, dot - 1)
        fp == IF dot = 0 THEN <<>> ELSE SubSeq(b, dot + 1, Len(b))
    IN  /\ Len(ip) + Len(fp) > 0
        /\ AllDigits(ip)
        /\ AllDigits(fp)

ParseNumber(s) ==
    LET m == DigitsValue(IntPart(s) \o FracPart(s))
    IN  Num(IF s[1] = "-" THEN 0 - m ELSE m, Len(FracPart(s)))

\* whether to_numeric raises on this cell
NumericFails(v) ==
    \/ v.t = "str" /\ v.s # <<>> /\ ~IsNumericStr(v.s)
    \/ v.t \in {"ts", "nat", "none"}

NumericValue(v) ==
    CASE v.t = "num" -> v
      [] v.t = "str" /\ v.s # <<>> -> ParseNumber(v.s)
      [] OTHER -> NaN

\* faulty variant: errors='coerce', a cell that cannot be parsed becomes NaN
to_numeric_coerce(col) ==
    Ok([i \in 1..Len(col) |-> IF NumericFails(col[i]) THEN NaN ELSE NumericValue(col[i])])

to_numeric(col) ==
    IF \E i \in 1..Len(col) : NumericFails(col[i])
    THEN Raise("ValueError")
    ELSE Ok([i \in 1..Len(col) |-> NumericValue(col[i])])

(***************************************************************************)
(* pandas.to_datetime(col, format='%d-%m-%Y %H:%M'): the whole str must    *)
(* match day-month-year, white space, hour:minute; the empty str and a     *)
(* missing value give NaT; any other str raises ValueError.                *)
(***************************************************************************)
YearDigits == 4
MaxFieldDigits == 2
MonthsInYear == 12
HoursInDay == 24
MinutesInHour == 60

IsLeap(y) == (y % 4 = 0 /\ y % 100 # 0) \/ y % 400 = 0

DaysInMonth(m, y) ==
    CASE m \in {4, 6, 9, 11} -> 30
      [] m = 2 -> IF IsLeap(y) THEN 29 ELSE 28
      [] OTHER -> 31

\* the five fields of a str in the format, as digit strings; <<>> when the
\* separators are not all there
DateFields(s) ==
    LET i1 == Find(s, "-", 1)
        i2 == IF i1 = 0 THEN 0 ELSE Find(s, "-", i1 + 1)
        i3 == IF i2 = 0 THEN 0 ELSE Find(s, " ", i2 + 1)
        h0 == IF i3 = 0 THEN 0 ELSE SkipChar(s, " ", i3)
        i4 == IF i3 = 0 THEN 0 ELSE Find(s, ":", h0)
    IN  IF i4 = 0 THEN <<>>
        ELSE << SubSeq(s, 1, i1 - 1), SubSeq(s, i1 + 1, i2 - 1), SubSeq(s, i2 + 1, i3 - 1),
                SubSeq(s, h0, i4 - 1), SubSeq(s, i4 + 1, Len(s)) >>

IsField(f, maxLen) == Len(f) \in 1..maxLen /\ AllDigits(f)

MatchesFormat(s) ==
    LET f == DateFields(s)
    IN  /\ f # <<>>
        /\ IsField(f[1], MaxFieldDigits)
        /\ IsField(f[2], MaxFieldDigits)
        /\ Len(f[3]) = YearDigits /\ AllDigits(f[3])
        /\ IsField(f[4], MaxFieldDigits)
        /\ IsField(f[5], MaxFieldDigits)
        /\ DigitsValue(f[2]) \in 1..MonthsInYear
        /\ DigitsValue(f[1]) \in 1..DaysInMonth(DigitsValue(f[2]), DigitsValue(f[3]))
        /\ DigitsValue(f[4]) \in 0..(HoursInDay - 1)
        /\ DigitsValue(f[5]) \in 0..(MinutesInHour - 1)

ParseDatetime(s) ==
    LET f == DateFields(s)
    IN  Ts(<< DigitsValue(f[3]), DigitsValue(f[2]), DigitsValue(f[1]),
              DigitsValue(f[4]), DigitsValue(f[5]) >>)

\* whether to_datetime raises on this cell
DatetimeFails(v) ==
    \/ v.t = "str" /\ v.s # <<>> /\ ~MatchesFormat(v.s)
    \/ v.t \in {"num", "none"}

DatetimeValue(v) ==
    CASE v.t \in {"ts", "nat"} -> v
      [] v.t = "str" /\ v.s # <<>> -> ParseDatetime(v.s)
      [] OTHER -> NaT

to_datetime(col) ==
    IF \E i \in 1..Len(col) : DatetimeFails(col[i])
    THEN Raise("ValueError")
    ELSE Ok([i \in 1..Len(col) |-> DatetimeValue(col[i])])

(***************************************************************************)
(* Series.str.slice(0, 10) and the element-wise  date + ' ' + time  of     *)
(* lines 121 and 124.  The .str accessor needs a column that holds str     *)
(* values (cells that are no str come out missing); the sum of a missing   *)
(* value and a str is missing; the sum of a str and a number raises.       *)
(***************************************************************************)
DateChars == 10

str_slice(col) ==
    IF \A i \in 1..Len(col) : col[i].t # "str"
    THEN Raise("AttributeError")
    ELSE Ok([i \in 1..Len(col) |->
               IF col[i].t = "str"
               THEN Str(SubSeq(col[i].s, 1, IF Len(col[i].s) < DateChars
                                             THEN Len(col[i].s) ELSE DateChars))
               ELSE NaN])

Concat(a, b) ==
    IF a.t = "str" /\ b.t = "str" THEN Str(a.s \o b.s) ELSE NaN

\* dates + ' ' + times, element by element
DatePlusTime(dates, times) ==
    IF \E i \in 1..Len(times) : dates[i].t = "str" /\ times[i].t \notin {"str", "nan"}
    THEN Raise("TypeError")
    ELSE Ok([i \in 1..Len(dates) |-> Concat(Concat(dates[i], Str(<<" ">>)), times[i])])

(***************************************************************************)
(* Data frames.  A dict is a sequence of items [k, v] in insertion order;  *)
(* a frame is [columns, data, rows] with data[j] the values of             *)
(* columns[j].                                                             *)
(***************************************************************************)
HasKey(d, k) == \E j \in 1..Len(d) : d[j].k = k

Lookup(d, k) == d[CHOOSE j \in 1..Len(d) : d[j].k = k].v

RECURSIVE AppendNew(_, _)
\* the column names seen so far, followed by the keys of d not yet among them
AppendNew(cols, d) ==
    IF d = <<>> THEN cols
    ELSE AppendNew(IF \E j \in 1..Len(cols) : cols[j] = d[1].k
                   THEN cols ELSE Append(cols, d[1].k),
                   Tail(d))

RECURSIVE FirstSeenKeys(_, _)
FirstSeenKeys(cols, list) ==
    IF list = <<>> THEN cols
    ELSE FirstSeenKeys(AppendNew(cols, list[1]), Tail(list))

\* faulty variant: the rows come out in reverse list order
from_dict_reversed(list) ==
    LET cols == FirstSeenKeys(<<>>, list)
    IN  [ columns |-> cols,
          rows |-> Len(list),
          data |-> [j \in 1..Len(cols) |->
                      [i \in 1..Len(list) |->
                         IF HasKey(list[Len(list) + 1 - i], cols[j])
                         THEN Lookup(list[Len(list) + 1 - i], cols[j])
                         ELSE NaN]] ]

\* pd.DataFrame.from_dict(list of dicts): one row per dict, one column per
\* key in first-seen order, NaN where a dict lacks the key
from_dict(list) ==
    LET cols == FirstSeenKeys(<<>>, list)
    IN  [ columns |-> cols,
          rows |-> Len(list),
          data |-> [j \in 1..Len(cols) |->
                      [i \in 1..Len(list) |->
                         IF HasKey(list[i], cols[j]) THEN Lookup(list[i], cols[j])
                         ELSE NaN]] ]

NoFrame == [columns |-> <<>>, rows |-> 0, data |-> <<>>]

HasColumn(df, name) == \E j \in 1..Len(df.columns) : df.columns[j] = name

ColumnIndex(df, name) == CHOOSE j \in 1..Len(df.columns) : df.columns[j] = name

\* df.<name> read as an attribute
GetColumn(df, name) ==
    IF HasColumn(df, name) THEN Ok(df.data[ColumnIndex(df, name)])
    ELSE Raise("AttributeError")

\* df.<name> = col, for a column the frame has
SetColumn(df, name, col) ==
    [df EXCEPT !.data[ColumnIndex(df, name)] = col]

\* df.to_dict(orient='records'): one dict per row, keys in column order
to_dict_records(df) ==
    [i \in 1..df.rows |->
       [j \in 1..Len(df.columns) |-> [k |-> df.columns[j], v |-> df.data[j][i]]]]


(***************************************************************************)
(* JSON documents.  A document is a dict of the top-level members, each a  *)
(* list of dicts.                                                          *)
(***************************************************************************)
Item(k, v) == [k |-> k, v |-> v]

RemoveKey(d, k) == SelectSeq(d, LAMBDA it : it.k # k)

SetKey(d, k, v) == [j \in 1..Len(d) |-> IF d[j].k = k THEN Item(k, v) ELSE d[j]]

\* dataDict[k]: the member, or KeyError
GetItem(d, k) == IF HasKey(d, k) THEN Ok(Lookup(d, k)) ELSE Raise("KeyError")

NoDoc == <<>>

(***************************************************************************)
(* The documents the calls are given.  Record i of a list carries the      *)
(* date of day i, so the rows of one table differ in their dates.  A       *)
(* document has at most one defect: one field of one record is missing,    *)
(* empty, unparsable, or a JSON number instead of a string.                *)
(***************************************************************************)
TwoDigits(n) == << Digits[(n \div 10) + 1], Digits[(n % 10) + 1] >>

DateText(i) == TwoDigits(i) \o <<"-", "0", "1", "-", "2", "0", "2", "1">>

CurrentKeys ==
    <<"cet", "sr", "ss", "time", "elev", "az", "temp", "gr", "sd", "tc", "vis", "prec">>

ForecastKeys ==
    <<"time", "cet", "elev", "az", "temp", "gr", "sd", "tc", "lc", "mc", "hc", "vis", "prec">>

TimestampKeys == {"cet", "sr", "ss"}

FieldText(k, i) ==
    CASE k = "cet"  -> DateText(i) \o <<" ", "1", "0", ":", "0", "0">>
      [] k = "sr"   -> <<"0", "8", ":", "3">> \o <<Digits[i + 1]>>
      [] k = "ss"   -> <<"1", "6", ":", "3">> \o <<Digits[i + 1]>>
      [] k = "time" -> <<"1", "6">> \o TwoDigits(i)
      [] k = "elev" -> <<"-", "3", ".", "5">>
      [] k = "az"   -> <<"1", "0", "0">>
      [] k = "temp" -> <<"5", ".", "5", "0">>
      [] k = "gr"   -> <<"5", "0">>
      [] k = "sd"   -> <<"0">>
      [] k = "tc"   -> <<"2", "0">>
      [] k = "lc"   -> <<"1">>
      [] k = "mc"   -> <<"2">>
      [] k = "hc"   -> <<"3">>
      [] k = "vis"  -> <<"1", "0", "0", "0", "0">>
      [] OTHER      -> <<"0", ".", "1">>

GoodRecord(keys, i) == [j \in 1..Len(keys) |-> Item(keys[j], Str(FieldText(keys[j], i)))]

GoodList(keys, n) == [i \in 1..n |-> GoodRecord(keys, i)]

Place == <<"D", "e", " ", "B", "i", "l", "t">>

GoodPlaces == << <<Item("plaats", Str(Place))>> >>

SunDoc(places, cur, fc) ==
    << Item("plaatsnaam", places), Item("current", cur), Item("forecast", fc) >>

DefectKinds(k) ==
    IF k = "cet" THEN {"missing", "empty", "garbage", "badtime"}
    ELSE IF k \in TimestampKeys THEN {"missing", "empty", "garbage"}
    ELSE {"missing", "empty", "garbage", "number"}

\* the record with field k made defective
Damage(rec, k, kind) ==
    CASE kind = "missing" -> RemoveKey(rec, k)
      [] kind = "empty"   -> SetKey(rec, k, Str(<<>>))
      [] kind = "garbage" -> SetKey(rec, k, Str(<<"n", "/", "a">>))
      [] kind = "number"  -> SetKey(rec, k, Num(7, 0))
      [] OTHER            -> SetKey(rec, k, Str(SubSeq(Lookup(rec, k).s, 1, DateChars)
                                                \o <<" ", "1", "0", ":", "6", "0">>))

DamageList(list, i, k, kind) == [list EXCEPT ![i] = Damage(list[i], k, kind)]

Range(seq) == {seq[j] : j \in 1..Len(seq)}

WellFormedSunDocs ==
    { SunDoc(GoodPlaces, GoodList(CurrentKeys, c), GoodList(ForecastKeys, f)) :
        c \in 0..MaxRecs, f \in 0..MaxRecs }

DefectiveCurrentDocs ==
    UNION { UNION { { SunDoc(GoodPlaces,
                             DamageList(GoodList(CurrentKeys, c), i, k, kind),
                             GoodList(ForecastKeys, 1)) :
                        kind \in DefectKinds(k), i \in 1..c } :
                    k \in Range(CurrentKeys) } :
            c \in 1..MaxRecs }

DefectiveForecastDocs ==
    UNION { UNION { { SunDoc(GoodPlaces,
                             GoodList(CurrentKeys, 1),
                             DamageList(GoodList(ForecastKeys, f), i, k, kind)) :
                        kind \in DefectKinds(k), i \in 1..f } :
                    k \in Range(ForecastKeys) } :
            f \in 1..MaxRecs }

\* documents whose top-level members are not as expected
MisshapenSunDocs ==
    LET cur == GoodList(CurrentKeys, 1)
        fc == GoodList(ForecastKeys, 1)
    IN  { SunDoc(<<>>, cur, fc),
          SunDoc(<< <<Item("naam", Str(Place))>> >>, cur, fc),
          SunDoc(<< <<Item("plaats", Str(Place))>>, <<Item("plaats", Str(<<"X">>))>> >>, cur, fc),
          RemoveKey(SunDoc(GoodPlaces, cur, fc), "plaatsnaam"),
          RemoveKey(SunDoc(GoodPlaces, cur, fc), "current"),
          RemoveKey(SunDoc(GoodPlaces, cur, fc), "forecast") }

SunDocs ==
    WellFormedSunDocs \cup DefectiveCurrentDocs \cup DefectiveForecastDocs
        \cup MisshapenSunDocs

(***************************************************************************)
(* Hourly-forecast documents: members 'plaatsnaam' and 'data'; the records *)
(* of 'data' carry strings and numbers, in differing key orders, and need  *)
(* not all carry the same keys.                                            *)
(***************************************************************************)
HourlyRecords ==
    { << Item("tijd", Str(<<"1", "6">>)), Item("temp", Str(<<"5">>)) >>,
      << Item("temp", Str(<<"-", "1">>)), Item("tijd", Str(<<"1", "7">>)) >>,
      << Item("tijd", Num(18, 0)), Item("winds", Num(35, 1)), Item("temp", Str(<<>>)) >>,
      << Item("winds", Str(<<"N", "O">>)) >> }

RECURSIVE ListsOf(_, _)
\* the lists of exactly n elements of set
ListsOf(set, n) ==
    IF n = 0 THEN {<<>>}
    ELSE { Append(l, x) : l \in ListsOf(set, n - 1), x \in set }

HourlyLists == UNION { ListsOf(HourlyRecords, n) : n \in 0..MaxRecs }

HourlyDocs ==
    { << Item("plaatsnaam", GoodPlaces), Item("data", l) >> : l \in HourlyLists }
        \cup { << Item("data", l) >> : l \in HourlyLists }
        \cup { << Item("data", l), Item("plaatsnaam", <<>>) >> : l \in HourlyLists }
        \cup { << Item("plaatsnaam", GoodPlaces) >> }

Docs == SunDocs \cup HourlyDocs


(***************************************************************************)
(* The statements of the two extraction functions, in program order.       *)
(***************************************************************************)
Stmt(line, op, frame, col) == [line |-> line, op |-> op, frame |-> frame, col |-> col]

\* lines 121-125: the date of 'cet' is put in front of 'sr' and 'ss'
SpliceStatements ==
    << Stmt(121, "splice",      "current",  "sr"),
       Stmt(122, "to_datetime", "current",  "sr"),
       Stmt(124, "splice",      "current",  "ss"),
       Stmt(125, "to_datetime", "current",  "ss") >>

\* lines 128-137: the columns of the current table are coerced
CurrentCoercions ==
    << Stmt(128, "to_numeric",  "current",  "time"),
       Stmt(129, "to_datetime", "current",  "cet"),
       Stmt(130, "to_numeric",  "current",  "elev"),
       Stmt(131, "to_numeric",  "current",  "az"),
       Stmt(132, "to_numeric",  "current",  "temp"),
       Stmt(133, "to_numeric",  "current",  "gr"),
       Stmt(134, "to_numeric",  "current",  "sd"),
       Stmt(135, "to_numeric",  "current",  "tc"),
       Stmt(136, "to_numeric",  "current",  "vis"),
       Stmt(137, "to_numeric",  "current",  "prec") >>

\* lines 143-157: the forecast table is built and its columns are coerced
ForecastStatements ==
    << Stmt(143, "from_dict",   "forecast", ""),
       Stmt(145, "to_numeric",  "forecast", "time"),
       Stmt(146, "to_datetime", "forecast", "cet"),
       Stmt(147, "to_numeric",  "forecast", "elev"),
       Stmt(148, "to_numeric",  "forecast", "az"),
       Stmt(149, "to_numeric",  "forecast", "temp"),
       Stmt(150, "to_numeric",  "forecast", "gr"),
       Stmt(151, "to_numeric",  "forecast", "sd"),
       Stmt(152, "to_numeric",  "forecast", "tc"),
       Stmt(153, "to_numeric",  "forecast", "lc"),
       Stmt(154, "to_numeric",  "forecast", "mc"),
       Stmt(155, "to_numeric",  "forecast", "hc"),
       Stmt(156, "to_numeric",  "forecast", "vis"),
       Stmt(157, "to_numeric",  "forecast", "prec") >>

\* faulty variant: 'cet' is converted before the date is put in front of 'sr' and 'ss'
SunProgram_cet_first ==
    << Stmt(114, "location",  "plaatsnaam", "plaats"),
       Stmt(118, "from_dict", "current", "") >>
        \o CurrentCoercions
        \o SpliceStatements
        \o ForecastStatements
        \o << Stmt(161, "return", "", "") >>

\* extract_Sun_dataframes_from_dict, lines 114-161
SunProgram ==
    << Stmt(114, "location",  "plaatsnaam", "plaats"),
       Stmt(118, "from_dict", "current", "") >>
        \o SpliceStatements
        \o CurrentCoercions
        \o ForecastStatements
        \o << Stmt(161, "return", "", "") >>

\* faulty variant: line 85, which reads the location, is not commented out
HourlyProgram_with_location ==
    << Stmt(85, "location",  "plaatsnaam", "plaats"),
       Stmt(86, "from_dict", "data", ""),
       Stmt(91, "return",    "", "") >>

\* extract_hourly_forecast_dataframes_from_dict, lines 86-91
HourlyProgram ==
    << Stmt(86, "from_dict", "data", ""),
       Stmt(91, "return",    "", "") >>

SunFunctions == {"extract_Sun_dataframes_from_dict", "read_json_file_sunData",
                 "read_json_url_sunData"}

HourlyFunctions == {"extract_hourly_forecast_dataframes_from_dict",
                    "read_json_file_uurverwachting", "read_json_url_uurverwachting"}

FileReaders == {"read_json_file_sunData", "read_json_file_uurverwachting"}

UrlReaders == {"read_json_url_sunData", "read_json_url_uurverwachting"}

Extractors == {"extract_Sun_dataframes_from_dict",
               "extract_hourly_forecast_dataframes_from_dict"}

Program(f) == IF f \in SunFunctions THEN SunProgram ELSE HourlyProgram

(***************************************************************************)
(* Files.  A file is absent, or holds text that is a JSON document, or     *)
(* holds text that is no JSON document (doc = NoDoc).                      *)
(***************************************************************************)
FileNames == {"in.json", "out.json"}

NoFile      == [exists |-> FALSE, valid |-> FALSE, doc |-> NoDoc]
JsonFile(d) == [exists |-> TRUE,  valid |-> TRUE,  doc |-> d]
BrokenFile  == [exists |-> TRUE,  valid |-> FALSE, doc |-> NoDoc]

\* json.dump can encode str and float/int cells (NaN included), no Timestamp
Serializable(v) == v.t \in {"str", "num", "nan"}

JsonDumpable(d) ==
    \A m \in 1..Len(d) : \A i \in 1..Len(d[m].v) : \A j \in 1..Len(d[m].v[i]) :
        Serializable(d[m].v[i][j].v)

(***************************************************************************)
(* State.                                                                  *)
(***************************************************************************)
VARIABLES
    input,      \* the document the behaviour is about
    files,      \* the file system; "in.json" also stands for the text the server
                \* sends to the URL readers (absent: the request fails)
    stage,      \* where the caller's script is: start, extracted, written, reread,
                \* rawwritten, rawreread (frames of strings written), done
    fn,         \* the function called last
    fileName,   \* its file argument
    pc,         \* its position: "idle" between calls
    xpc,        \* index of the next statement of the extraction function, 0 outside
    handle,     \* the file handle of the call: none, open, closed
    exc,        \* the exception being propagated, "" when none
    dataDict,   \* local: the decoded document
    location,   \* local of extract_Sun_dataframes_from_dict
    current,    \* local of extract_Sun_dataframes_from_dict
    forecast,   \* local of extract_Sun_dataframes_from_dict
    data,       \* local of extract_hourly_forecast_dataframes_from_dict
    result,     \* what the extraction function returned to the reader
    fileJSON,   \* local of write_json_file_sunData
    args,       \* the (location, current, forecast) given to write_json_file_sunData
    ret         \* how the last call ended and what it returned

vars == << input, files, stage, fn, fileName, pc, xpc, handle, exc, dataDict, location,
           current, forecast, data, result, fileJSON, args, ret >>

locals == << dataDict, location, current, forecast, data, result, fileJSON >>

Tuple(loc, cur, fc, dat) == [location |-> loc, current |-> cur, forecast |-> fc, data |-> dat]

NoTuple == Tuple(NoValue, NoFrame, NoFrame, NoFrame)

Ret(status, e, t) == [status |-> status, exc |-> e, value |-> t]

Init ==
    /\ \/ input \in Docs /\ files = [f \in FileNames |->
                                       IF f = "in.json" THEN JsonFile(input) ELSE NoFile]
       \/ /\ input \in WellFormedSunDocs
          /\ \E c \in {NoFile, BrokenFile} :
                files = [f \in FileNames |-> IF f = "in.json" THEN c ELSE NoFile]
    /\ stage = "start"
    /\ fn = ""
    /\ fileName = ""
    /\ pc = "idle"
    /\ xpc = 0
    /\ handle = "none"
    /\ exc = ""
    /\ dataDict = NoDoc
    /\ location = NoValue
    /\ current = NoFrame
    /\ forecast = NoFrame
    /\ data = NoFrame
    /\ result = NoTuple
    /\ fileJSON = NoDoc
    /\ args = NoTuple
    /\ ret = Ret("none", "", NoTuple)


(***************************************************************************)
(* How a call ends, and how an exception leaves the function.              *)
(***************************************************************************)
\* the caller's script: read, then write what was read, then read it back
NextStage(status, value) ==
    CASE stage = "start" /\ fn = "write_json_file_sunData" -> "rawwritten"
      [] stage = "start" /\ fn \in SunFunctions /\ status = "returned"
             /\ value.location.t # "none" -> "extracted"
      [] stage = "extracted" -> "written"
      [] stage = "written" -> "reread"
      [] stage = "rawwritten" -> "rawreread"
      [] OTHER -> "done"

End(status, e, value) ==
    /\ pc' = "idle"
    /\ ret' = Ret(status, e, value)
    /\ stage' = NextStage(status, value)

\* an exception raised at the current statement: inside a `with` block it
\* passes through the block's exit first, otherwise it ends the call
Raised(e) ==
    /\ exc' = e
    /\ xpc' = 0
    /\ IF handle = "open"
       THEN pc' = "exit" /\ UNCHANGED << ret, stage >>
       ELSE End("raised", e, NoTuple)

\* faulty variant: open() and close() without `with`, the close is skipped on an exception
HandleAfterWith_leak(h, e) == IF e = "" THEN "closed" ELSE h

\* the handle after the `with` block is left, normally or by an exception
HandleAfterWith(h, e) == "closed"

Frame(name) ==
    CASE name = "current" -> current
      [] name = "forecast" -> forecast
      [] OTHER -> data

SetFrame(name, df) ==
    /\ current' = IF name = "current" THEN df ELSE current
    /\ forecast' = IF name = "forecast" THEN df ELSE forecast
    /\ data' = IF name = "data" THEN df ELSE data

Running == pc = "body" /\ xpc \in 1..Len(Program(fn))

Statement == Program(fn)[xpc]

(***************************************************************************)
(* The calls.                                                              *)
(***************************************************************************)
Begin(f, name, at, x, d) ==
    /\ pc = "idle"
    /\ fn' = f
    /\ fileName' = name
    /\ pc' = at
    /\ xpc' = x
    /\ handle' = "none"
    /\ exc' = ""
    /\ dataDict' = d
    /\ location' = NoValue
    /\ current' = NoFrame
    /\ forecast' = NoFrame
    /\ data' = NoFrame
    /\ result' = NoTuple
    /\ fileJSON' = NoDoc
    /\ UNCHANGED << input, files, stage, ret >>

\* extract_Sun_dataframes_from_dict(dataDict), sundata.py line 92, and
\* extract_hourly_forecast_dataframes_from_dict(dataDict), uurverwachting.py line 70
CallExtract ==
    /\ stage = "start"
    /\ \E f \in Extractors : Begin(f, "", "body", 1, input)
    /\ UNCHANGED args

\* read_json_file_sunData(fileJSON, loc), sundata.py line 60, and
\* read_json_file_uurverwachting(fileJSON), uurverwachting.py line 50
CallReadFile ==
    /\ \E f \in FileReaders :
          \/ stage = "start" /\ Begin(f, "in.json", "open", 0, NoDoc)
          \/ /\ stage \in {"written", "rawwritten"}
             /\ f = "read_json_file_sunData"
             /\ Begin(f, "out.json", "open", 0, NoDoc)
    /\ UNCHANGED args

\* read_json_url_sunData(key, location, loc), sundata.py line 26, and
\* read_json_url_uurverwachting(key, location), uurverwachting.py line 27
CallReadUrl ==
    /\ stage = "start"
    /\ \E f \in UrlReaders : Begin(f, "in.json", "get", 0, NoDoc)
    /\ UNCHANGED args

\* write_json_file_sunData(fileName, location, current, forecast), line 164:
\* with what a reader returned, or with frames of plain strings
CallWrite ==
    /\ \/ stage = "extracted" /\ args' = ret.value
       \/ /\ stage = "start"
          /\ input \in WellFormedSunDocs
          /\ args' = Tuple(Str(Place), from_dict(Lookup(input, "current")),
                           from_dict(Lookup(input, "forecast")), NoFrame)
    /\ Begin("write_json_file_sunData", "out.json", "build", 0, NoDoc)

(***************************************************************************)
(* The readers' steps.                                                     *)
(***************************************************************************)
\* with open(fileJSON) as dataJSON  (sundata.py 79, uurverwachting.py 60)
OpenRead ==
    /\ pc = "open"
    /\ IF files[fileName].exists
       THEN /\ handle' = "open"
            /\ pc' = "load"
            /\ UNCHANGED << exc, xpc, ret, stage >>
       ELSE /\ Raised("FileNotFoundError")
            /\ UNCHANGED handle
    /\ UNCHANGED << input, files, fn, fileName, locals, args >>

\* requests.get(...).text  (sundata.py 46, uurverwachting.py 39)
GetUrl ==
    /\ pc = "get"
    /\ IF files[fileName].exists
       THEN pc' = "load" /\ UNCHANGED << exc, xpc, ret, stage >>
       ELSE Raised("ConnectionError")
    /\ UNCHANGED << input, files, fn, fileName, handle, locals, args >>

\* json.load(dataJSON) / json.loads(dataJSON)
\* (sundata.py 81 and 49, uurverwachting.py 62 and 42)
LoadJson ==
    /\ pc = "load"
    /\ IF files[fileName].valid
       THEN /\ dataDict' = files[fileName].doc
            /\ pc' = "body"
            /\ xpc' = 1
            /\ UNCHANGED << exc, ret, stage >>
       ELSE /\ Raised("JSONDecodeError")
            /\ UNCHANGED dataDict
    /\ UNCHANGED << input, files, fn, fileName, handle, location, current, forecast,
                    data, result, fileJSON, args >>

\* leaving the `with` block (sundata.py 79-84 and 200-201, uurverwachting.py 60-65)
ExitWith ==
    /\ pc = "exit"
    /\ handle' = HandleAfterWith(handle, exc)
    /\ IF exc # ""
       THEN End("raised", exc, NoTuple)
       ELSE pc' = "after" /\ UNCHANGED << ret, stage >>
    /\ UNCHANGED << input, files, fn, fileName, xpc, exc, locals, args >>

\* the readers' return statements (sundata.py 54-57 and 86-89,
\* uurverwachting.py 47 and 67) and the writer's (sundata.py 203); the
\* argument loc is read nowhere else and is drawn here
Return ==
    /\ pc = "after"
    /\ \/ /\ fn \in SunFunctions
          /\ \E loc \in BOOLEAN :
                End("returned", "",
                    Tuple(IF loc THEN result.location ELSE NoValue,
                          result.current, result.forecast, NoFrame))
       \/ /\ fn \in HourlyFunctions
          /\ End("returned", "", Tuple(NoValue, NoFrame, NoFrame, result.data))
       \/ /\ fn = "write_json_file_sunData"
          /\ End("returned", "", NoTuple)
    /\ UNCHANGED << input, files, fn, fileName, xpc, handle, exc, locals, args >>


(***************************************************************************)
(* The statements of the extraction functions.                             *)
(***************************************************************************)
Advance == xpc' = xpc + 1 /\ UNCHANGED << pc, exc, ret, stage >>

\* location = pd.DataFrame.from_dict(dataDict['plaatsnaam']).plaats[0]  (114)
LocationOf(d) ==
    LET m == GetItem(d, "plaatsnaam")
        df == from_dict(m.val)
        col == GetColumn(df, "plaats")
    IN  IF ~m.ok THEN m
        ELSE IF ~col.ok THEN col
        ELSE Ok(col.val[1])

StmtLocation ==
    /\ Running
    /\ Statement.op = "location"
    /\ LET r == LocationOf(dataDict)
       IN  IF r.ok
           THEN location' = r.val /\ Advance
           ELSE Raised(r.exc) /\ UNCHANGED location
    /\ UNCHANGED << input, files, fn, fileName, handle, dataDict, current, forecast,
                    data, result, fileJSON, args >>

\* <frame> = pd.DataFrame.from_dict(dataDict['<frame>'])
\* (sundata.py 118 and 143, uurverwachting.py 86)
StmtFromDict ==
    /\ Running
    /\ Statement.op = "from_dict"
    /\ LET m == GetItem(dataDict, Statement.frame)
       IN  IF m.ok
           THEN SetFrame(Statement.frame, from_dict(m.val)) /\ Advance
           ELSE Raised(m.exc) /\ UNCHANGED << current, forecast, data >>
    /\ UNCHANGED << input, files, fn, fileName, handle, dataDict, location, result,
                    fileJSON, args >>

\* faulty variant: one date, that of the first row, is put in front of every row's time
Spliced_first_row_date(df, name) ==
    LET cet == GetColumn(df, "cet")
        dates == str_slice(cet.val)
        times == GetColumn(df, name)
    IN  IF ~cet.ok THEN cet
        ELSE IF ~dates.ok THEN dates
        ELSE IF ~times.ok THEN times
        ELSE DatePlusTime([i \in 1..Len(dates.val) |-> dates.val[1]], times.val)

\* current.cet.str.slice(0,10) + ' ' + current.<col>  (121, 124)
Spliced(df, name) ==
    LET cet == GetColumn(df, "cet")
        dates == str_slice(cet.val)
        times == GetColumn(df, name)
    IN  IF ~cet.ok THEN cet
        ELSE IF ~dates.ok THEN dates
        ELSE IF ~times.ok THEN times
        ELSE DatePlusTime(dates.val, times.val)

StmtSplice ==
    /\ Running
    /\ Statement.op = "splice"
    /\ LET r == Spliced(current, Statement.col)
       IN  IF r.ok
           THEN current' = SetColumn(current, Statement.col, r.val) /\ Advance
           ELSE Raised(r.exc) /\ UNCHANGED current
    /\ UNCHANGED << input, files, fn, fileName, handle, dataDict, location, forecast,
                    data, result, fileJSON, args >>

\* faulty variant: the column is assigned back as it is
Coerced_skipped(df, name, op) == GetColumn(df, name)

\* the column, coerced by the function the statement names
Coerced(df, name, op) ==
    LET col == GetColumn(df, name)
    IN  IF ~col.ok THEN col
        ELSE IF op = "to_datetime" THEN to_datetime(col.val)
        ELSE to_numeric(col.val)

\* <frame>.<col> = pd.to_datetime(<frame>.<col>, format='%d-%m-%Y %H:%M')
\* (122, 125, 129, 146)
StmtToDatetime ==
    /\ Running
    /\ Statement.op = "to_datetime"
    /\ LET r == Coerced(Frame(Statement.frame), Statement.col, Statement.op)
       IN  IF r.ok
           THEN /\ SetFrame(Statement.frame,
                            SetColumn(Frame(Statement.frame), Statement.col, r.val))
                /\ Advance
           ELSE Raised(r.exc) /\ UNCHANGED << current, forecast, data >>
    /\ UNCHANGED << input, files, fn, fileName, handle, dataDict, location, result,
                    fileJSON, args >>

\* <frame>.<col> = pd.to_numeric(<frame>.<col>).values  (128, 130-137, 145, 147-157)
StmtToNumeric ==
    /\ Running
    /\ Statement.op = "to_numeric"
    /\ LET r == Coerced(Frame(Statement.frame), Statement.col, Statement.op)
       IN  IF r.ok
           THEN /\ SetFrame(Statement.frame,
                            SetColumn(Frame(Statement.frame), Statement.col, r.val))
                /\ Advance
           ELSE Raised(r.exc) /\ UNCHANGED << current, forecast, data >>
    /\ UNCHANGED << input, files, fn, fileName, handle, dataDict, location, result,
                    fileJSON, args >>

\* return location, current, forecast  (sundata.py 161);  return data
\* (uurverwachting.py 91)
StmtReturn ==
    /\ Running
    /\ Statement.op = "return"
    /\ xpc' = 0
    /\ LET t == Tuple(location, current, forecast, data)
       IN  IF fn \in Extractors
           THEN End("returned", "", t) /\ UNCHANGED result
           ELSE /\ result' = t
                /\ pc' = IF fn \in FileReaders THEN "exit" ELSE "after"
                /\ UNCHANGED << ret, stage >>
    /\ UNCHANGED << input, files, fn, fileName, handle, exc, dataDict, location,
                    current, forecast, data, fileJSON, args >>

(***************************************************************************)
(* write_json_file_sunData.                                                *)
(***************************************************************************)
\* lines 177-197: the enveloping dict
Envelope(loc, cur, fc) ==
    SunDoc(<< <<Item("plaats", loc)>> >>, to_dict_records(cur), to_dict_records(fc))

BuildJson ==
    /\ pc = "build"
    /\ fileJSON' = Envelope(args.location, args.current, args.forecast)
    /\ pc' = "wopen"
    /\ UNCHANGED << input, files, stage, fn, fileName, xpc, handle, exc, dataDict,
                    location, current, forecast, data, result, args, ret >>

\* with open(fileName, 'w') as outFile  (200): the file is created or emptied
OpenWrite ==
    /\ pc = "wopen"
    /\ files' = [files EXCEPT ![fileName] = BrokenFile]
    /\ handle' = "open"
    /\ pc' = "dump"
    /\ UNCHANGED << input, stage, fn, fileName, xpc, exc, locals, args, ret >>

\* json.dump(fileJSON, outFile)  (201): the text is written piece by piece,
\* so a value that cannot be encoded leaves a file that is no JSON document
DumpJson ==
    /\ pc = "dump"
    /\ IF JsonDumpable(fileJSON)
       THEN /\ files' = [files EXCEPT ![fileName] = JsonFile(fileJSON)]
            /\ pc' = "exit"
            /\ UNCHANGED << exc, xpc, ret, stage >>
       ELSE /\ files' = [files EXCEPT ![fileName] = BrokenFile]
            /\ Raised("TypeError")
    /\ UNCHANGED << input, fn, fileName, handle, locals, args >>

Next ==
    \/ CallExtract
    \/ CallReadFile
    \/ CallReadUrl
    \/ CallWrite
    \/ OpenRead
    \/ GetUrl
    \/ LoadJson
    \/ StmtLocation
    \/ StmtFromDict
    \/ StmtSplice
    \/ StmtToDatetime
    \/ StmtToNumeric
    \/ StmtReturn
    \/ ExitWith
    \/ Return
    \/ BuildJson
    \/ OpenWrite
    \/ DumpJson

Spec == Init /\ [][Next]_vars


(***************************************************************************)
(* Vocabulary of the properties.                                           *)
(***************************************************************************)
\* the last call was to f and has ended
Ended(f) == pc = "idle" /\ fn = f /\ ret.status # "none"

ExtractSun == "extract_Sun_dataframes_from_dict"

ExtractHourly == "extract_hourly_forecast_dataframes_from_dict"

\* the list under a top-level key of a document, empty when the key is absent
Member(d, k) == IF HasKey(d, k) THEN Lookup(d, k) ELSE <<>>

\* the cell of row i in column name of a frame
Cell(df, name, i) == df.data[ColumnIndex(df, name)][i]

\* a timestamp written out as DD-MM-YYYY HH:MM
FormatTimestamp(v) ==
    LET y == v.ts[1]
    IN  TwoDigits(v.ts[3]) \o <<"-">> \o TwoDigits(v.ts[2]) \o <<"-">>
          \o TwoDigits(y \div 100) \o TwoDigits(y % 100)
          \o <<" ">> \o TwoDigits(v.ts[4]) \o <<":">> \o TwoDigits(v.ts[5])

NumericColumns(frame) ==
    IF frame = "current"
    THEN {"time", "elev", "az", "temp", "gr", "sd", "tc", "vis", "prec"}
    ELSE {"time", "elev", "az", "temp", "gr", "sd", "tc", "lc", "mc", "hc", "vis", "prec"}

TimestampColumns(frame) == IF frame = "current" THEN {"cet", "sr", "ss"} ELSE {"cet"}

ExpectedKeys(frame) == NumericColumns(frame) \cup TimestampColumns(frame)

\* a string of the form HH:MM
IsTimeOfDay(s) ==
    /\ Len(s) = 5
    /\ s[3] = ":"
    /\ AllDigits(SubSeq(s, 1, 2)) /\ AllDigits(SubSeq(s, 4, 5))
    /\ DigitsValue(SubSeq(s, 1, 2)) < HoursInDay
    /\ DigitsValue(SubSeq(s, 4, 5)) < MinutesInHour

\* a record with every expected field, each a string of the field's form
\* ('cet' as DD-MM-YYYY HH:MM with two-digit day, month, hour and minute)
CompleteRecord(rec, frame) ==
    /\ \A k \in ExpectedKeys(frame) : HasKey(rec, k) /\ Lookup(rec, k).t = "str"
    /\ \A k \in NumericColumns(frame) : IsNumericStr(Lookup(rec, k).s)
    /\ MatchesFormat(Lookup(rec, "cet").s)
    /\ FormatTimestamp(ParseDatetime(Lookup(rec, "cet").s)) = Lookup(rec, "cet").s
    /\ \A k \in TimestampColumns(frame) \ {"cet"} : IsTimeOfDay(Lookup(rec, k).s)

WellFormedList(d, frame) ==
    /\ HasKey(d, frame)
    /\ \A i \in 1..Len(Lookup(d, frame)) : CompleteRecord(Lookup(d, frame)[i], frame)

WellFormedPlaces(d) ==
    /\ HasKey(d, "plaatsnaam")
    /\ Len(Lookup(d, "plaatsnaam")) = 1
    /\ HasKey(Lookup(d, "plaatsnaam")[1], "plaats")
    /\ Lookup(Lookup(d, "plaatsnaam")[1], "plaats").t = "str"

\* spec: a one-element 'plaatsnaam' list, and 'current' and 'forecast' lists
\* of complete records with at least one record each
WellFormedDoc(d) ==
    /\ WellFormedPlaces(d)
    /\ WellFormedList(d, "current") /\ Len(Lookup(d, "current")) >= 1
    /\ WellFormedList(d, "forecast") /\ Len(Lookup(d, "forecast")) >= 1

\* row i of the frame was built from element i of the list: every column is
\* as long as the list, and the row's timestamp is the element's 'cet'
RowsFromList(df, list) ==
    /\ df.rows = Len(list)
    /\ \A j \in 1..Len(df.columns) : Len(df.data[j]) = Len(list)
    /\ HasColumn(df, "cet")
    /\ \A i \in 1..Len(list) :
          /\ Cell(df, "cet", i).t = "ts"
          /\ FormatTimestamp(Cell(df, "cet", i)) = Lookup(list[i], "cet").s

(***************************************************************************)
(* C1.  For every well-formed sun document, the extraction returns the     *)
(* location doc.plaatsnaam[0].plaats, a current table with len(current)    *)
(* rows and a forecast table with len(forecast) rows, row i built from     *)
(* list element i.                                                         *)
(***************************************************************************)
C1_ExtractWellFormed ==
    (Ended(ExtractSun) /\ WellFormedDoc(dataDict)) =>
        /\ ret.status = "returned"
        /\ ret.value.location = Lookup(Lookup(dataDict, "plaatsnaam")[1], "plaats")
        /\ RowsFromList(ret.value.current, Lookup(dataDict, "current"))
        /\ RowsFromList(ret.value.forecast, Lookup(dataDict, "forecast"))

C1_Witness ==
    /\ Ended(ExtractSun)
    /\ WellFormedDoc(dataDict)
    /\ ret.status = "returned"
    /\ ret.value.current.rows >= 2
    /\ ret.value.forecast.rows >= 2

(***************************************************************************)
(* C2.  With an empty 'forecast' list and well-formed 'plaatsnaam' and     *)
(* 'current', the extraction returns the location, one current row per     *)
(* record and a forecast table of zero rows; it does not end in an error.  *)
(***************************************************************************)
C2_EmptyForecastReturns ==
    ( /\ Ended(ExtractSun)
      /\ WellFormedPlaces(dataDict)
      /\ WellFormedList(dataDict, "current") /\ Len(Lookup(dataDict, "current")) >= 1
      /\ HasKey(dataDict, "forecast") /\ Lookup(dataDict, "forecast") = <<>> ) =>
        /\ ret.status = "returned"
        /\ ret.value.current.rows = Len(Lookup(dataDict, "current"))
        /\ ret.value.forecast.rows = 0


(***************************************************************************)
(* C3.  In every row of the returned current table, the sunrise timestamp  *)
(* has the date of the first 10 characters of that row's own 'cet' string  *)
(* and the time of day of that row's 'sr' string, and the sunset timestamp *)
(* likewise from 'cet' and 'ss'; rows with different dates in 'cet' get    *)
(* sunrise/sunset timestamps with those different dates.                   *)
(***************************************************************************)
HasStr(rec, k) == HasKey(rec, k) /\ Lookup(rec, k).t = "str"

DateOf(v) == SubSeq(v.ts, 1, 3)

C3_SunriseFromOwnRow ==
    (Ended(ExtractSun) /\ ret.status = "returned") =>
        LET list == Lookup(dataDict, "current")
            cur == ret.value.current
            rows == { i \in 1..Len(list) : HasStr(list[i], "cet") }
        IN  \A k \in {"sr", "ss"} :
              /\ \A i \in rows :
                    HasStr(list[i], k) =>
                      /\ Cell(cur, k, i).t = "ts"
                      /\ FormatTimestamp(Cell(cur, k, i)) =
                            SubSeq(Lookup(list[i], "cet").s, 1, DateChars)
                              \o <<" ">> \o Lookup(list[i], k).s
              /\ \A i, j \in rows :
                    ( /\ HasStr(list[i], k) /\ HasStr(list[j], k)
                      /\ SubSeq(Lookup(list[i], "cet").s, 1, DateChars)
                            # SubSeq(Lookup(list[j], "cet").s, 1, DateChars) ) =>
                      DateOf(Cell(cur, k, i)) # DateOf(Cell(cur, k, j))

C3_Witness ==
    /\ Ended(ExtractSun)
    /\ ret.status = "returned"
    /\ ret.value.current.rows >= 2
    /\ Cell(ret.value.current, "sr", 1).t = "ts"
    /\ Cell(ret.value.current, "sr", 2).t = "ts"
    /\ DateOf(Cell(ret.value.current, "sr", 1)) # DateOf(Cell(ret.value.current, "sr", 2))

(***************************************************************************)
(* C4.  If any single record of the 'forecast' or 'current' list lacks an  *)
(* expected field, also when other records of the list carry it, the       *)
(* extraction fails with an error.                                         *)
(***************************************************************************)
LacksField(d) ==
    \E frame \in {"current", "forecast"} :
       \E i \in 1..Len(Member(d, frame)) :
          \E k \in ExpectedKeys(frame) : ~HasKey(Member(d, frame)[i], k)

C4_MissingFieldFails ==
    (Ended(ExtractSun) /\ LacksField(dataDict)) => ret.status = "raised"

(***************************************************************************)
(* C5.  Round trip: what the extraction returned for a well-formed         *)
(* document can be written with write_json_file_sunData, and reading the   *)
(* file back gives the same location and tables equal in every column      *)
(* apart from sunrise and sunset.                                          *)
(***************************************************************************)
SameApartFromSun(a, b) ==
    /\ a.columns = b.columns
    /\ a.rows = b.rows
    /\ \A j \in 1..Len(a.columns) :
          a.columns[j] \notin {"sr", "ss"} => a.data[j] = b.data[j]

C5_RoundTrip ==
    WellFormedDoc(input) =>
        /\ (pc = "idle" /\ stage = "written") => ret.status = "returned"
        /\ (pc = "idle" /\ stage = "reread") =>
              /\ ret.status = "returned"
              /\ ret.value.location \in {NoValue, args.location}
              /\ SameApartFromSun(ret.value.current, args.current)
              /\ SameApartFromSun(ret.value.forecast, args.forecast)

(***************************************************************************)
(* C6.  If a value of a coerced column of 'current' or 'forecast' fails    *)
(* coercion (a string to_numeric cannot parse, or a 'cet'/'sr'/'ss' string *)
(* that does not parse as day-month-year hour:minute), the whole call of   *)
(* the extraction, and of the file and URL readers, ends in an error and   *)
(* returns nothing, whichever row or table holds the value.                *)
(***************************************************************************)
FailingCell(rec, frame, k) ==
    /\ HasStr(rec, k)
    /\ LET v == Lookup(rec, k)
       IN  IF k \in NumericColumns(frame) THEN NumericFails(v)
           ELSE IF k = "cet" THEN DatetimeFails(v)
           ELSE /\ HasStr(rec, "cet")
                /\ Len(Lookup(rec, "cet").s) >= DateChars
                /\ DatetimeFails(Str(SubSeq(Lookup(rec, "cet").s, 1, DateChars)
                                     \o <<" ">> \o v.s))

\* the rows, by table, that hold a value on which the coercion fails
FailingCells(d) ==
    UNION { { [frame |-> frame, row |-> i] :
                i \in { h \in 1..Len(Member(d, frame)) :
                          \E k \in ExpectedKeys(frame) :
                             FailingCell(Member(d, frame)[h], frame, k) } } :
            frame \in {"current", "forecast"} }

TypedFrame(df, frame) ==
    /\ \A k \in NumericColumns(frame) :
          HasColumn(df, k) /\ \A i \in 1..df.rows : Cell(df, k, i).t \in {"num", "nan"}
    /\ \A k \in TimestampColumns(frame) :
          HasColumn(df, k) /\ \A i \in 1..df.rows : Cell(df, k, i).t \in {"ts", "nat"}

C7_ColumnsAreTyped ==
    \A f \in SunFunctions :
        (Ended(f) /\ ret.status = "returned") =>
            /\ TypedFrame(ret.value.current, "current")
            /\ TypedFrame(ret.value.forecast, "forecast")

C7_Witness ==
    /\ Ended(ExtractSun)
    /\ ret.status = "returned"
    /\ Lookup(Lookup(dataDict, "forecast")[1], "temp") = Str(<<"5", ".", "5", "0">>)
    /\ Cell(ret.value.forecast, "temp", 1) = Num(55, 1)
    /\ Cell(ret.value.current, "elev", 1) = Num(0 - 35, 1)

(***************************************************************************)
(* C8.  The hourly extraction returns a table with one row per element of  *)
(* doc['data'], in list order, columns in first-seen key order, every cell *)
(* holding the input value unchanged in its JSON type; it coerces nothing  *)
(* and does not read doc['plaatsnaam'].                                    *)
(***************************************************************************)
KeysOf(list) == UNION { { list[i][j].k : j \in 1..Len(list[i]) } : i \in 1..Len(list) }

\* where key k is first seen: << element of the list, position in the element >>
FirstSeenAt(list, k) ==
    LET i == CHOOSE i \in 1..Len(list) :
                 HasKey(list[i], k) /\ \A h \in 1..(i - 1) : ~HasKey(list[h], k)
    IN  << i, CHOOSE j \in 1..Len(list[i]) : list[i][j].k = k >>

SeenBefore(p, q) == p[1] < q[1] \/ (p[1] = q[1] /\ p[2] < q[2])

ColumnsFirstSeen(df, list) ==
    /\ Range(df.columns) = KeysOf(list)
    /\ Len(df.columns) = Cardinality(KeysOf(list))
    /\ \A a, b \in 1..Len(df.columns) :
          a < b => SeenBefore(FirstSeenAt(list, df.columns[a]), FirstSeenAt(list, df.columns[b]))

C8_HourlyPassThrough ==
    (Ended(ExtractHourly) /\ HasKey(dataDict, "data")) =>
        LET list == Lookup(dataDict, "data")
            df == ret.value.data
        IN  /\ ret.status = "returned"
            /\ df.rows = Len(list)
            /\ ColumnsFirstSeen(df, list)
            /\ \A i \in 1..Len(list) :
                  /\ \A j \in 1..Len(list[i]) : Cell(df, list[i][j].k, i) = list[i][j].v
                  /\ \A k \in KeysOf(list) : ~HasKey(list[i], k) => Cell(df, k, i) = NaN

C8_Witness ==
    /\ Ended(ExtractHourly)
    /\ ret.status = "returned"
    /\ ~HasKey(dataDict, "plaatsnaam")
    /\ ret.value.data.rows >= 2
    /\ ret.value.data.columns = <<"temp", "tijd", "winds">>
    /\ Cell(ret.value.data, "tijd", 1).t = "str"
    /\ Cell(ret.value.data, "tijd", 2).t = "num"

(***************************************************************************)
(* C9.  The date is put in front of 'sr' and 'ss' before the current       *)
(* table's 'cet' column is converted: whenever 'sr' or 'ss' is about to be *)
(* rebuilt, 'cet' still holds the input strings, and when 'cet' is about   *)
(* to be converted, 'sr' and 'ss' have been rebuilt.                       *)
(***************************************************************************)
C9_SpliceBeforeCetConversion ==
    (Running /\ fn \in SunFunctions /\ Statement.frame = "current"
        /\ HasColumn(current, "cet")) =>
        LET list == Lookup(dataDict, "current")
        IN  /\ Statement.op = "splice" =>
                  \A i \in 1..Len(list) :
                     Cell(current, "cet", i) =
                        (IF HasKey(list[i], "cet") THEN Lookup(list[i], "cet") ELSE NaN)
            /\ (Statement.op = "to_datetime" /\ Statement.col = "cet") =>
                  \A k \in {"sr", "ss"} : \A i \in 1..Len(list) :
                     Cell(current, k, i).t \in {"ts", "nat"}

C9_Witness ==
    /\ Running
    /\ fn = ExtractSun
    /\ Statement.op = "splice"
    /\ Statement.col = "ss"
    /\ current.rows >= 2
    /\ Cell(current, "cet", 2).t = "str"
    /\ Cell(current, "sr", 2).t = "ts"

(***************************************************************************)
(* C10.  In read_json_file_sunData, read_json_file_uurverwachting and      *)
(* write_json_file_sunData the file handle the call opened is closed when  *)
(* the call ends, on every path: return, JSON decode failure, failure of   *)
(* the extraction inside the block, failure of json.dump.                  *)
(***************************************************************************)
C10_HandleClosedAtEnd ==
    pc \in {"idle", "after"} => handle # "open"

C10_Witness ==
    /\ Ended("write_json_file_sunData")
    /\ ret.status = "raised"
    /\ ret.exc = "TypeError"
    /\ handle = "closed"


====
